---- MODULE Spec2Model ----
(***************************************************************************)
(* Model of packages/core/src/utils/searchCache.ts: SearchCache<T>, a      *)
(* Map-backed LRU cache with per-entry expiry.  The JavaScript Map is      *)
(* modelled as a sequence of entries in insertion order; Date.now() is the *)
(* variable now, advanced by the environment.                              *)
(***************************************************************************)
EXTENDS Integers, Sequences, FiniteSets, TLC

\* ------------------------------------------------------------------ bounds
MaxCap == 2          \* largest maxSize a cache is constructed with
MaxCapValues == 3    \* largest maxSize in SpecValues
MaxTime == 2         \* Date.now() ranges over 0..MaxTime
DefaultTtl == 2      \* the ttlMs option the cache is constructed with

\* ------------------------------------------------------------ input sets
Keys == {"", "a", "b"}
Values == {"v1"}
\* the smaller key set and larger value set of SpecValues
Keys2 == {"a", "b"}
Values2 == {"v1", "v2"}
\* the optional ttlMs argument: <<>> is "omitted", <<n>> is "n was passed"
TtlArgs == {<<>>, <<-1>>, <<0>>, <<1>>}

\* the constructor's options: <<>> is "not given", <<n>> is "n was given"
MaxSizeOpts == {<<>>, <<-1>>, <<0>>, <<1>>}
TtlMsOpts == {<<>>, <<-1>>, <<1>>}
\* the constructor's fallbacks: maxSize ?? 100 and ttlMs ?? 5 * 60 * 1000
DefaultMaxSize == 100
DefaultTtlMs == 300000

\* JavaScript's undefined (the result of a miss, and of keys().next().value
\* on an empty Map)
Undefined == "undefined"

VARIABLES
  cache,         \* this.cache: sequence of [key, value, timestamp, expiresAt]
  maxSize,       \* this.maxSize
  defaultTtlMs,  \* this.defaultTtlMs
  now,           \* Date.now()
  last,          \* the last call: [op, key, value, ttl, ret]
  recency,       \* keys present, ordered by their last successful get or set
  promised,      \* per key: the value last set and the time its TTL runs to,
                 \* until an eviction, delete or clear removes the key
  inserted,      \* keys set so far, while the history is only sets of distinct keys
  keyCalls,      \* the last two generateKey calls: [query, options, key]
  mode,          \* config.getApprovalMode()
  trusted,       \* config.isTrustedFolder()
  cmd,           \* the last slash command: [name, before, messageType]
  confirm,       \* the last shouldConfirmExecute / onConfirm: [tool, asked, outcome]
  apiKey,        \* whether a Tavily API key is configured
  ws,            \* per web-search invocation: position in execute and its result
  img,           \* the last image fetch: the response and the result of execute
  wf,            \* per web-fetch invocation: position in executeDirectFetch and its result
  usage          \* the last render of ContextUsageDisplay: its props and its output

cacheVars == <<cache, maxSize, defaultTtlMs, now, last, recency, promised, inserted>>
toolVars == <<keyCalls, mode, trusted, cmd, confirm, apiKey, ws, img, wf, usage>>
vars == <<cacheVars, toolVars>>

\* ------------------------------------------------------- Map<string, entry>
RECURSIVE SelectEntries(_, _)
SelectEntries(m, keep) ==
  IF m = <<>> THEN <<>>
  ELSE IF m[1].key \in keep THEN <<m[1]>> \o SelectEntries(Tail(m), keep)
       ELSE SelectEntries(Tail(m), keep)

MapKeys(m) == {m[i].key : i \in 1..Len(m)}

MapHas(m, key) == key \in MapKeys(m)

\* Map.prototype.get: the entry stored under key, or undefined
MapGet(m, key) ==
  IF MapHas(m, key) THEN m[CHOOSE i \in 1..Len(m) : m[i].key = key]
  ELSE Undefined

\* Map.prototype.delete: the other entries keep their relative order
MapDelete(m, key) == SelectEntries(m, MapKeys(m) \ {key})

\* Map.prototype.set: a new key is appended; an existing key keeps its
\* position in the iteration order and only its entry is replaced
MapSet(m, key, entry) ==
  IF MapHas(m, key)
    THEN [i \in 1..Len(m) |-> IF m[i].key = key THEN entry ELSE m[i]]
    ELSE Append(m, entry)

\* this.cache.keys().next().value
OldestKey(m) == IF m = <<>> THEN Undefined ELSE m[1].key

\* JavaScript truthiness of a string-or-undefined: '' and undefined are falsy
Truthy(k) == k /= Undefined /\ k /= ""

\* ttlMs ?? this.defaultTtlMs
TtlOrDefault(ttlMs, dflt) == IF ttlMs = <<>> THEN dflt ELSE ttlMs[1]

\* ---------------------------------------------------------- SearchCache
\* get with a sliding TTL: a hit restarts the entry's lifetime at time t
GetCacheSliding(m, key, t) ==
  IF ~MapHas(m, key) THEN m
  ELSE IF t > MapGet(m, key).expiresAt THEN MapDelete(m, key)
  ELSE LET e == MapGet(m, key) IN
         MapSet(MapDelete(m, key), key,
                [e EXCEPT !.timestamp = t,
                          !.expiresAt = t + (e.expiresAt - e.timestamp)])

\* get that remembers a miss: a missing key gets an entry that is already expired
GetCacheNegative(m, key, t) ==
  IF ~MapHas(m, key)
    THEN Append(m, [key |-> key, value |-> Undefined, timestamp |-> t,
                    expiresAt |-> t - 1])
  ELSE IF t > MapGet(m, key).expiresAt THEN MapDelete(m, key)
  ELSE MapSet(MapDelete(m, key), key, MapGet(m, key))

\* the Map after get(key) at time t
GetCache(m, key, t) ==
  IF ~MapHas(m, key) THEN m
  ELSE IF t > MapGet(m, key).expiresAt THEN MapDelete(m, key)
  ELSE MapSet(MapDelete(m, key), key, MapGet(m, key))

\* get with the expiry test off by one: an entry is dropped at now = expiresAt
GetResultEager(m, key, t) ==
  IF ~MapHas(m, key) THEN Undefined
  ELSE IF t >= MapGet(m, key).expiresAt THEN Undefined
  ELSE MapGet(m, key).value

\* the value get(key) returns at time t
GetResult(m, key, t) ==
  IF ~MapHas(m, key) THEN Undefined
  ELSE IF t > MapGet(m, key).expiresAt THEN Undefined
  ELSE MapGet(m, key).value

\* the Map after the "evict oldest if at capacity" block of set
EvictOldest(m, cap) ==
  IF Len(m) >= cap
    THEN IF Truthy(OldestKey(m)) THEN MapDelete(m, OldestKey(m)) ELSE m
    ELSE m

\* the Map after set(key, value, ttlMs) at time t
SetCache(m, cap, dflt, key, value, ttlMs, t) ==
  MapSet(EvictOldest(m, cap), key,
         [key |-> key, value |-> value, timestamp |-> t,
          expiresAt |-> t + TtlOrDefault(ttlMs, dflt)])

\* the object getStats() returns
StatsOf(m, cap) == [size |-> Len(m), maxSize |-> cap]

\* getStats that counts only the entries a get would still serve at time t
StatsLiveOf(m, cap, t) ==
  [size |-> Cardinality({i \in 1..Len(m) : t <= m[i].expiresAt}), maxSize |-> cap]

\* ------------------------------------------------------ history variables
NoCall == [op |-> "new", key |-> Undefined, value |-> Undefined,
           ttl |-> <<>>, ret |-> Undefined]

Call(op, key, value, ttl, ret) ==
  [op |-> op, key |-> key, value |-> value, ttl |-> ttl, ret |-> ret]

RECURSIVE SelectKeys(_, _)
SelectKeys(s, keep) ==
  IF s = <<>> THEN <<>>
  ELSE IF s[1] \in keep THEN <<s[1]>> \o SelectKeys(Tail(s), keep)
       ELSE SelectKeys(Tail(s), keep)

\* key becomes the most recently touched of the keys in present
Touch(r, key, present) ==
  SelectKeys(Append(SelectKeys(r, Keys \ {key}), key), present)

\* the TTL the cache contract gives an entry: ttl if provided and positive,
\* else the default
EffectiveTtl(ttlMs, dflt) ==
  IF ttlMs /= <<>> /\ ttlMs[1] > 0 THEN ttlMs[1] ELSE dflt

NoSet == [value |-> Undefined, until |-> 0]

SeqRange(s) == {s[i] : i \in 1..Len(s)}

\* ---------------------------------------------------- SearchCache.generateKey
\* Strings are sequences of one-character strings.  An options object is the
\* sequence of its own properties [name, value] in insertion order; a value
\* is a number ("1", "2"), null, NaN or undefined.
Char(c) == <<c>>

\* the queries passed to generateKey
Queries ==
  { <<>>, <<" ">>, <<"a">>, <<"A">>, <<" ", "a">>, <<"a", " ">>,
    <<" ", "A", " ">>, <<"a", "b">>, <<"a", " ", "b">>, <<"A", " ", "B">> }

Prop(name, value) == [name |-> name, value |-> value]

OptionObjects ==
  { <<>>,
    <<Prop("a", "1")>>, <<Prop("a", "2")>>, <<Prop("a", "null")>>,
    <<Prop("a", "NaN")>>, <<Prop("a", "undefined")>>,
    <<Prop("a", "1"), Prop("b", "2")>>, <<Prop("b", "2"), Prop("a", "1")>> }

\* the optional options argument: <<>> is "omitted", <<o>> is "o was passed"
OptionArgs == {<<>>} \cup {<<o>> : o \in OptionObjects}

\* String.prototype.toLowerCase
LowerChar(c) == CASE c = "A" -> "a" [] c = "B" -> "b" [] OTHER -> c

ToLowerCase(str) == [i \in 1..Len(str) |-> LowerChar(str[i])]

\* String.prototype.trim
IsWhiteSpace(c) == c = " "

RECURSIVE TrimStart(_)
TrimStart(str) ==
  IF str /= <<>> /\ IsWhiteSpace(str[1]) THEN TrimStart(Tail(str)) ELSE str

RECURSIVE TrimEnd(_)
TrimEnd(str) ==
  IF str /= <<>> /\ IsWhiteSpace(str[Len(str)])
    THEN TrimEnd(SubSeq(str, 1, Len(str) - 1))
    ELSE str

Trim(str) == TrimEnd(TrimStart(str))

\* JSON.stringify of a property value: NaN is written as null
JsonValue(value) == IF value = "NaN" THEN "null" ELSE value

\* JSON.stringify of the properties of an object, as a sequence of tokens:
\* a property whose value is undefined is left out
RECURSIVE JsonProps(_, _)
JsonProps(obj, first) ==
  IF obj = <<>> THEN <<>>
  ELSE IF obj[1].value = "undefined" THEN JsonProps(Tail(obj), first)
  ELSE (IF first THEN <<>> ELSE <<",">>)
       \o <<"\"", obj[1].name, "\"", ":", JsonValue(obj[1].value)>>
       \o JsonProps(Tail(obj), FALSE)

JsonStringify(obj) == <<"{">> \o JsonProps(obj, TRUE) \o <<"}">>

\* generateKey that lower-cases but does not trim
GenerateKeyNoTrim(query, options) ==
  ToLowerCase(query) \o <<":">>
    \o (IF options /= <<>> THEN JsonStringify(options[1]) ELSE <<>>)

\* SearchCache.generateKey(query, options)
GenerateKey(query, options) ==
  LET normalizedQuery == Trim(ToLowerCase(query))
      optionsStr == IF options /= <<>> THEN JsonStringify(options[1]) ELSE <<>>
  IN normalizedQuery \o <<":">> \o optionsStr

KeyCall(query, options) ==
  [query |-> query, options |-> options, key |-> GenerateKey(query, options)]

\* --------------------------------------------------------- idle tool state
KeyIdle == keyCalls = <<>>

NoCmd == [name |-> "none", before |-> "default", messageType |-> "none", content |-> "none"]
NoConfirm == [tool |-> "none", asked |-> FALSE, outcome |-> "none"]

CommandsIdle ==
  /\ mode = "default"
  /\ trusted = TRUE
  /\ cmd = NoCmd
  /\ confirm = NoConfirm

\* the tool invocations a run keeps side by side
Invs == {1, 2}

NoResult == [kind |-> "none", cached |-> Undefined, payload |-> Undefined]

\* an invocation whose execute has not been called
IdleInv ==
  [pc |-> "idle", query |-> <<>>, key |-> <<>>, attempt |-> 0, fetches |-> 0,
   aborted |-> FALSE, result |-> NoResult]

WebIdle ==
  /\ apiKey = TRUE
  /\ ws = [i \in Invs |-> IdleInv]

ImageIdle == img = <<>>

\* a web-fetch invocation whose execute has not been called
IdleFetch ==
  [pc |-> "idle", url |-> <<>>, key |-> <<>>, fetches |-> 0, textContent |-> Undefined,
   cached |-> FALSE, result |-> "none"]

FetchIdle == wf = [i \in Invs |-> IdleFetch]

\* ContextUsageDisplay has not been rendered
UsageIdle == usage = <<>>

ToolsIdle == KeyIdle /\ CommandsIdle /\ WebIdle /\ ImageIdle /\ FetchIdle /\ UsageIdle

\* the cache of a run that does not use it
CacheIdle ==
  /\ cache = <<>>
  /\ maxSize = DefaultMaxSize
  /\ defaultTtlMs = DefaultTtlMs
  /\ now = 0
  /\ last = NoCall
  /\ recency = <<>>
  /\ promised = [k \in Keys |-> NoSet]
  /\ inserted = <<>>

\* -------------------------------------------------------------- actions
Init ==
  /\ cache = <<>>
  /\ maxSize \in 1..MaxCap
  /\ defaultTtlMs = DefaultTtl
  /\ now = 0
  /\ last = NoCall
  /\ recency = <<>>
  /\ promised = [k \in Keys |-> NoSet]
  /\ inserted = <<>>
  /\ ToolsIdle

Get(key) ==
  /\ cache' = GetCache(cache, key, now)
  /\ last' = Call("get", key, Undefined, <<>>, GetResult(cache, key, now))
  /\ recency' = IF GetResult(cache, key, now) /= Undefined
                  THEN Touch(recency, key, MapKeys(cache'))
                  ELSE SelectKeys(recency, MapKeys(cache'))
  /\ inserted' = <<Undefined>>
  /\ UNCHANGED <<maxSize, defaultTtlMs, now, promised>>
  /\ UNCHANGED toolVars

\* has that only peeks: no expiry test, no lazy removal, no promotion
HasPeek(key) ==
  /\ last' = Call("has", key, Undefined, <<>>, MapHas(cache, key))
  /\ inserted' = <<Undefined>>
  /\ UNCHANGED <<cache, recency, maxSize, defaultTtlMs, now, promised>>
  /\ UNCHANGED toolVars

Has(key) ==
  /\ cache' = GetCache(cache, key, now)
  /\ last' = Call("has", key, Undefined, <<>>,
                  GetResult(cache, key, now) /= Undefined)
  /\ recency' = IF GetResult(cache, key, now) /= Undefined
                  THEN Touch(recency, key, MapKeys(cache'))
                  ELSE SelectKeys(recency, MapKeys(cache'))
  /\ inserted' = <<Undefined>>
  /\ UNCHANGED <<maxSize, defaultTtlMs, now, promised>>
  /\ UNCHANGED toolVars

Set(key, value, ttlMs) ==
  /\ cache' = SetCache(cache, maxSize, defaultTtlMs, key, value, ttlMs, now)
  /\ last' = Call("set", key, value, ttlMs, Undefined)
  /\ recency' = Touch(recency, key, MapKeys(cache'))
  /\ promised' = [k \in Keys |->
                   IF k = key THEN [value |-> value, until |-> now + EffectiveTtl(ttlMs, defaultTtlMs)]
                   ELSE IF k \in MapKeys(cache) \ MapKeys(cache') THEN NoSet
                   ELSE promised[k]]
  /\ inserted' = IF Undefined \notin SeqRange(inserted) /\ key \notin SeqRange(inserted)
                   THEN Append(inserted, key)
                   ELSE <<Undefined>>
  /\ UNCHANGED <<maxSize, defaultTtlMs, now>>
  /\ UNCHANGED toolVars

\* delete that reports an expired entry as "nothing removed"
DeleteLive(key) ==
  /\ cache' = MapDelete(cache, key)
  /\ last' = Call("delete", key, Undefined, <<>>,
                  GetResult(cache, key, now) /= Undefined)
  /\ recency' = SelectKeys(recency, MapKeys(cache'))
  /\ promised' = [promised EXCEPT ![key] = NoSet]
  /\ inserted' = <<Undefined>>
  /\ UNCHANGED <<maxSize, defaultTtlMs, now>>
  /\ UNCHANGED toolVars

Delete(key) ==
  /\ cache' = MapDelete(cache, key)
  /\ last' = Call("delete", key, Undefined, <<>>, MapHas(cache, key))
  /\ recency' = SelectKeys(recency, MapKeys(cache'))
  /\ promised' = [promised EXCEPT ![key] = NoSet]
  /\ inserted' = <<Undefined>>
  /\ UNCHANGED <<maxSize, defaultTtlMs, now>>
  /\ UNCHANGED toolVars

Clear ==
  /\ cache' = <<>>
  /\ last' = Call("clear", Undefined, Undefined, <<>>, Undefined)
  /\ recency' = <<>>
  /\ promised' = [k \in Keys |-> NoSet]
  /\ inserted' = <<Undefined>>
  /\ UNCHANGED <<maxSize, defaultTtlMs, now>>
  /\ UNCHANGED toolVars

\* getStats reading the live entries only
GetStatsLive ==
  /\ last' = Call("getStats", Undefined, Undefined, <<>>,
                  StatsLiveOf(cache, maxSize, now))
  /\ inserted' = <<Undefined>>
  /\ UNCHANGED <<cache, recency, maxSize, defaultTtlMs, now, promised>>
  /\ UNCHANGED toolVars

GetStats ==
  /\ last' = Call("getStats", Undefined, Undefined, <<>>, StatsOf(cache, maxSize))
  /\ inserted' = <<Undefined>>
  /\ UNCHANGED <<cache, recency, maxSize, defaultTtlMs, now, promised>>
  /\ UNCHANGED toolVars

\* the clock advances between calls
Tick ==
  /\ now < MaxTime
  /\ now' = now + 1
  /\ UNCHANGED <<cache, maxSize, defaultTtlMs, last, recency, promised, inserted>>
  /\ UNCHANGED toolVars

Next ==
  \/ \E key \in Keys : Get(key)
  \/ \E key \in Keys : Has(key)
  \/ \E key \in Keys, value \in Values, ttlMs \in TtlArgs : Set(key, value, ttlMs)
  \/ \E key \in Keys : Delete(key)
  \/ Clear
  \/ GetStats
  \/ Tick

Spec == Init /\ [][Next]_vars

\* the same calls with two non-empty keys, two distinguishable values and
\* room for both keys below capacity
InitValues ==
  /\ cache = <<>>
  /\ maxSize \in 1..MaxCapValues
  /\ defaultTtlMs = DefaultTtl
  /\ now = 0
  /\ last = NoCall
  /\ recency = <<>>
  /\ promised = [k \in Keys |-> NoSet]
  /\ inserted = <<>>
  /\ ToolsIdle

NextValues ==
  \/ \E key \in Keys2 : Get(key)
  \/ \E key \in Keys2 : Has(key)
  \/ \E key \in Keys2, value \in Values2, ttlMs \in TtlArgs : Set(key, value, ttlMs)
  \/ \E key \in Keys2 : Delete(key)
  \/ Clear
  \/ GetStats
  \/ Tick

SpecValues == InitValues /\ [][NextValues]_vars

\* options?.x ?? fallback
OptionOr(opt, fallback) == IF opt = <<>> THEN fallback ELSE opt[1]

\* new SearchCache(options) for any options, the invalid ones included
InitConfig ==
  /\ cache = <<>>
  /\ \E ms \in MaxSizeOpts, ttl \in TtlMsOpts :
       /\ maxSize = OptionOr(ms, DefaultMaxSize)
       /\ defaultTtlMs = OptionOr(ttl, DefaultTtlMs)
  /\ now = 0
  /\ last = NoCall
  /\ recency = <<>>
  /\ promised = [k \in Keys |-> NoSet]
  /\ inserted = <<>>
  /\ ToolsIdle

NextConfig ==
  \/ \E key \in Keys2 : Get(key)
  \/ \E key \in Keys2 : Has(key)
  \/ \E key \in Keys2, value \in Values, ttlMs \in TtlArgs : Set(key, value, ttlMs)
  \/ \E key \in Keys2 : Delete(key)
  \/ Clear
  \/ GetStats
  \/ Tick

SpecConfig == InitConfig /\ [][NextConfig]_vars

\* ------------------------------------------------------ generateKey calls
InitKey ==
  /\ CacheIdle
  /\ ToolsIdle

\* one call of generateKey; the last two calls are kept side by side
GenerateKeyCall(query, options) ==
  /\ keyCalls' = IF keyCalls = <<>>
                   THEN <<KeyCall(query, options)>>
                   ELSE <<keyCalls[Len(keyCalls)], KeyCall(query, options)>>
  /\ UNCHANGED <<usage, wf, mode, trusted, cmd, confirm, apiKey, ws, img>>
  /\ UNCHANGED cacheVars

NextKey == \E query \in Queries, options \in OptionArgs : GenerateKeyCall(query, options)

SpecKey == InitKey /\ [][NextKey]_vars

\* ----------------------------------------------------- web-search tool
MaxWebTicks == 2
MAX_RETRIES == 2
WebSearchMaxSize == 50
WebSearchTtlMs == 10 * 60 * 1000
WebTickMs == WebSearchTtlMs

\* params.query: validateToolParamValues rejects an empty or blank query
WebQueries == {<<"a">>, <<" ", "A">>, <<"b">>}
\* the search responses the service can give
Payloads == {"r1", "r2"}
\* the ways one fetch can fail: a non-OK response, a network error, the
\* timeout of fetchWithTimeout, the abort of the caller's signal
FetchFailures == {"http", "network", "timeout", "abort"}

\* (error as Error).message.includes(word)
MessageIncludes(failure, word) ==
  CASE failure = "http" -> FALSE
    [] failure = "network" -> FALSE
    [] failure = "timeout" -> word = "abort"
    [] failure = "abort" -> word = "abort"

\* the result execute returns for a cache entry
FormatResult(data, cached) == [kind |-> "ok", cached |-> cached, payload |-> data]
ErrorResult(cause) == [kind |-> "error", cached |-> Undefined, payload |-> cause]
DisabledResult == [kind |-> "disabled", cached |-> Undefined, payload |-> Undefined]

\* the start of one pass of the retry loop of executeSearch
StartAttempt(inv, attempt) ==
  IF inv.aborted
    THEN [inv EXCEPT !.pc = "done", !.attempt = attempt,
                     !.result = ErrorResult("Search aborted")]
    ELSE [inv EXCEPT !.pc = "fetching", !.attempt = attempt,
                     !.fetches = inv.fetches + 1]

\* webSearchCache, with the clock running
InitWeb ==
  /\ cache = <<>>
  /\ maxSize = WebSearchMaxSize
  /\ defaultTtlMs = WebSearchTtlMs
  /\ now = 0
  /\ last = Call("none", <<>>, Undefined, <<>>, Undefined)
  /\ recency = <<>>
  /\ promised = [k \in Keys |-> NoSet]
  /\ inserted = <<>>
  /\ KeyIdle /\ CommandsIdle /\ ImageIdle /\ FetchIdle /\ UsageIdle
  /\ apiKey \in BOOLEAN
  /\ ws = [i \in Invs |-> IdleInv]

\* execute with single-flight coalescing: a miss waits for a request that
\* another invocation already has in flight for the same key
WsExecuteCoalescing(i, query) ==
  /\ ws[i].pc = "idle"
  /\ IF ~apiKey
       THEN /\ ws' = [ws EXCEPT ![i] = [@ EXCEPT !.pc = "done", !.query = query,
                                                 !.result = DisabledResult]]
            /\ UNCHANGED <<cache, last, recency, inserted>>
       ELSE LET cacheKey == GenerateKey(query, <<>>)
                cachedResult == GetResult(cache, cacheKey, now)
                inv == [ws[i] EXCEPT !.query = query, !.key = cacheKey]
                inFlight == \E j \in Invs \ {i} :
                              ws[j].pc \in {"fetching", "sleeping"} /\ ws[j].key = cacheKey
            IN /\ cache' = GetCache(cache, cacheKey, now)
               /\ last' = Call("get", cacheKey, Undefined, <<>>, cachedResult)
               /\ recency' = IF cachedResult /= Undefined
                               THEN Touch(recency, cacheKey, MapKeys(cache'))
                               ELSE SelectKeys(recency, MapKeys(cache'))
               /\ inserted' = <<Undefined>>
               /\ ws' = [ws EXCEPT ![i] =
                           IF cachedResult /= Undefined
                             THEN [inv EXCEPT !.pc = "done",
                                              !.result = FormatResult(cachedResult, TRUE)]
                           ELSE IF inFlight THEN [inv EXCEPT !.pc = "sleeping"]
                           ELSE StartAttempt(inv, 0)]
  /\ UNCHANGED <<maxSize, defaultTtlMs, now, promised>>
  /\ UNCHANGED <<usage, wf, keyCalls, mode, trusted, cmd, confirm, apiKey, img>>

\* execute(signal) up to its first await
WsExecute(i, query) ==
  /\ ws[i].pc = "idle"
  /\ IF ~apiKey
       THEN /\ ws' = [ws EXCEPT ![i] = [@ EXCEPT !.pc = "done", !.query = query,
                                                 !.result = DisabledResult]]
            /\ UNCHANGED <<cache, last, recency, inserted>>
       ELSE LET cacheKey == GenerateKey(query, <<>>)
                cachedResult == GetResult(cache, cacheKey, now)
                inv == [ws[i] EXCEPT !.query = query, !.key = cacheKey]
            IN /\ cache' = GetCache(cache, cacheKey, now)
               /\ last' = Call("get", cacheKey, Undefined, <<>>, cachedResult)
               /\ recency' = IF cachedResult /= Undefined
                               THEN Touch(recency, cacheKey, MapKeys(cache'))
                               ELSE SelectKeys(recency, MapKeys(cache'))
               /\ inserted' = <<Undefined>>
               /\ ws' = [ws EXCEPT ![i] =
                           IF cachedResult /= Undefined
                             THEN [inv EXCEPT !.pc = "done",
                                              !.result = FormatResult(cachedResult, TRUE)]
                             ELSE StartAttempt(inv, 0)]
  /\ UNCHANGED <<maxSize, defaultTtlMs, now, promised>>
  /\ UNCHANGED <<usage, wf, keyCalls, mode, trusted, cmd, confirm, apiKey, img>>

\* the search succeeds but its result is returned without being cached
WsResponseNoStore(i, data) ==
  /\ ws[i].pc = "fetching"
  /\ ws' = [ws EXCEPT ![i] = [@ EXCEPT !.pc = "done",
                                       !.result = FormatResult(data, FALSE)]]
  /\ UNCHANGED cacheVars
  /\ UNCHANGED <<usage, wf, keyCalls, mode, trusted, cmd, confirm, apiKey, img>>

\* the fetch resolves with an OK response: execute caches and returns it
WsResponse(i, data) ==
  /\ ws[i].pc = "fetching"
  /\ cache' = SetCache(cache, maxSize, defaultTtlMs, ws[i].key, data, <<>>, now)
  /\ last' = Call("set", ws[i].key, data, <<>>, Undefined)
  /\ recency' = Touch(recency, ws[i].key, MapKeys(cache'))
  /\ inserted' = <<Undefined>>
  /\ ws' = [ws EXCEPT ![i] = [@ EXCEPT !.pc = "done",
                                       !.result = FormatResult(data, FALSE)]]
  /\ UNCHANGED <<maxSize, defaultTtlMs, now, promised>>
  /\ UNCHANGED <<usage, wf, keyCalls, mode, trusted, cmd, confirm, apiKey, img>>

\* a catch block that goes on retrying after the caller's abort
WsFetchFailsRetryAborted(i, failure) ==
  /\ ws[i].pc = "fetching"
  /\ failure = "abort" => ws[i].aborted
  /\ ws' = [ws EXCEPT ![i] =
              IF ws[i].attempt >= MAX_RETRIES
                THEN [@ EXCEPT !.pc = "done", !.result = ErrorResult(failure)]
              ELSE [@ EXCEPT !.pc = "sleeping"]]
  /\ UNCHANGED cacheVars
  /\ UNCHANGED <<usage, wf, keyCalls, mode, trusted, cmd, confirm, apiKey, img>>

\* a catch block that caches the failure under the query's key
WsFetchFailsCaching(i, failure) ==
  /\ ws[i].pc = "fetching"
  /\ failure = "abort" => ws[i].aborted
  /\ LET gaveUp == \/ ws[i].aborted
                   \/ ws[i].attempt >= MAX_RETRIES
                   \/ (/\ MessageIncludes(failure, "abort")
                       /\ ~MessageIncludes(failure, "timeout"))
     IN /\ ws' = [ws EXCEPT ![i] =
                    IF gaveUp
                      THEN [@ EXCEPT !.pc = "done", !.result = ErrorResult(failure)]
                      ELSE [@ EXCEPT !.pc = "sleeping"]]
        /\ cache' = IF gaveUp
                      THEN SetCache(cache, maxSize, defaultTtlMs, ws[i].key, failure,
                                    <<>>, now)
                      ELSE cache
  /\ UNCHANGED <<maxSize, defaultTtlMs, now, last, recency, promised, inserted>>
  /\ UNCHANGED <<usage, wf, keyCalls, mode, trusted, cmd, confirm, apiKey, img>>

\* the fetch fails: the catch block of executeSearch rethrows or sleeps
WsFetchFails(i, failure) ==
  /\ ws[i].pc = "fetching"
  /\ failure = "abort" => ws[i].aborted
  /\ ws' = [ws EXCEPT ![i] =
              IF ws[i].aborted \/ ws[i].attempt >= MAX_RETRIES
                THEN [@ EXCEPT !.pc = "done", !.result = ErrorResult(failure)]
              ELSE IF MessageIncludes(failure, "abort")
                      /\ ~MessageIncludes(failure, "timeout")
                THEN [@ EXCEPT !.pc = "done", !.result = ErrorResult(failure)]
              ELSE [@ EXCEPT !.pc = "sleeping"]]
  /\ UNCHANGED cacheVars
  /\ UNCHANGED <<usage, wf, keyCalls, mode, trusted, cmd, confirm, apiKey, img>>

\* the backoff sleep ends and the loop starts its next pass
WsWake(i) ==
  /\ ws[i].pc = "sleeping"
  /\ ws' = [ws EXCEPT ![i] = StartAttempt(ws[i], ws[i].attempt + 1)]
  /\ UNCHANGED cacheVars
  /\ UNCHANGED <<usage, wf, keyCalls, mode, trusted, cmd, confirm, apiKey, img>>

\* the caller aborts the signal of an invocation, before or during execute
WsAbort(i) ==
  /\ ws[i].pc /= "done"
  /\ ~ws[i].aborted
  /\ ws' = [ws EXCEPT ![i] = [@ EXCEPT !.aborted = TRUE]]
  /\ UNCHANGED cacheVars
  /\ UNCHANGED <<usage, wf, keyCalls, mode, trusted, cmd, confirm, apiKey, img>>

\* the clock advances by one lifetime of an entry
WebTick ==
  /\ now < MaxWebTicks * WebTickMs
  /\ now' = now + WebTickMs
  /\ UNCHANGED <<cache, maxSize, defaultTtlMs, last, recency, promised, inserted>>
  /\ UNCHANGED toolVars

NextWeb ==
  \/ \E i \in Invs, query \in WebQueries : WsExecute(i, query)
  \/ \E i \in Invs, data \in Payloads : WsResponse(i, data)
  \/ \E i \in Invs, failure \in FetchFailures : WsFetchFails(i, failure)
  \/ \E i \in Invs : WsWake(i)
  \/ \E i \in Invs : WsAbort(i)
  \/ WebTick

SpecWeb == InitWeb /\ [][NextWeb]_vars

\* executeSearch on its own: one query, one payload, no clock. The timer of
\* fetchWithTimeout settles every pending fetch and every sleep ends.
NextSearch ==
  \/ \E i \in Invs : WsExecute(i, <<"a">>)
  \/ \E i \in Invs : WsResponse(i, "r1")
  \/ \E i \in Invs, failure \in FetchFailures : WsFetchFails(i, failure)
  \/ \E i \in Invs : WsWake(i)
  \/ \E i \in Invs : WsAbort(i)

SpecSearch ==
  /\ InitWeb
  /\ [][NextSearch]_vars
  /\ \A i \in Invs :
       /\ WF_vars(WsWake(i))
       /\ WF_vars(\/ WsResponse(i, "r1")
                  \/ \E failure \in FetchFailures : WsFetchFails(i, failure))

\* ------------------------------------------- approval mode and commands
\* the values of the ApprovalMode enum
ApprovalModes == {"default", "auto-edit", "yolo", "plan"}
\* the tools whose invocations ask for confirmation
ConfirmingTools == {"web_search", "web_fetch", "read_image_url"}
\* the values of ToolConfirmationOutcome a prompt can end with
Outcomes == {"ProceedOnce", "ProceedAlways", "Cancel"}

\* config.setApprovalMode(target) throws: an untrusted folder refuses the
\* modes that approve tool calls on their own
SetApprovalModeThrows(target) == ~trusted /\ target \in {"auto-edit", "yolo"}

\* a session starts in the mode of its settings; an untrusted folder starts
\* in the default mode
InitCommands ==
  /\ CacheIdle
  /\ KeyIdle /\ WebIdle /\ ImageIdle /\ FetchIdle /\ UsageIdle
  /\ trusted \in BOOLEAN
  /\ mode \in ApprovalModes
  /\ ~trusted => mode = "default"
  /\ cmd = NoCmd
  /\ confirm = NoConfirm

\* the message a toggle command returns: currentMode is read only when there
\* is a config, and each exit of the action has its own content
CommandResult(name, hasConfig, ok) ==
  [name |-> name,
   before |-> IF hasConfig THEN mode ELSE Undefined,
   messageType |-> IF ok THEN "info" ELSE "error",
   content |-> IF ~hasConfig THEN "Configuration not available."
               ELSE IF ~ok THEN "Failed to toggle"
               ELSE IF mode = name THEN "disabled"
               ELSE "enabled"]

\* /plan with the copy of /yolo's test left in: it never sees Plan mode on
PlanCommandSticky(hasConfig) ==
  LET target == IF mode = "yolo" THEN "default" ELSE "plan"
      ok == hasConfig /\ ~SetApprovalModeThrows(target)
  IN /\ mode' = IF ok THEN target ELSE mode
     /\ cmd' = CommandResult("plan", hasConfig, ok)
     /\ UNCHANGED <<usage, wf, keyCalls, trusted, confirm, apiKey, ws, img>>
     /\ UNCHANGED cacheVars

\* planCommand.action; hasConfig: context.services.config is not null
PlanCommand(hasConfig) ==
  LET target == IF mode = "plan" THEN "default" ELSE "plan"
      ok == hasConfig /\ ~SetApprovalModeThrows(target)
  IN /\ mode' = IF ok THEN target ELSE mode
     /\ cmd' = CommandResult("plan", hasConfig, ok)
     /\ UNCHANGED <<usage, wf, keyCalls, trusted, confirm, apiKey, ws, img>>
     /\ UNCHANGED cacheVars

\* /yolo that falls back to the default mode when the change is refused
YoloCommandFallback(hasConfig) ==
  LET target == IF mode = "yolo" THEN "default" ELSE "yolo"
      ok == hasConfig /\ ~SetApprovalModeThrows(target)
  IN /\ mode' = IF ok THEN target ELSE IF hasConfig THEN "default" ELSE mode
     /\ cmd' = CommandResult("yolo", hasConfig, ok)
     /\ UNCHANGED <<usage, wf, keyCalls, trusted, confirm, apiKey, ws, img>>
     /\ UNCHANGED cacheVars

\* yoloCommand.action
YoloCommand(hasConfig) ==
  LET target == IF mode = "yolo" THEN "default" ELSE "yolo"
      ok == hasConfig /\ ~SetApprovalModeThrows(target)
  IN /\ mode' = IF ok THEN target ELSE mode
     /\ cmd' = CommandResult("yolo", hasConfig, ok)
     /\ UNCHANGED <<usage, wf, keyCalls, trusted, confirm, apiKey, ws, img>>
     /\ UNCHANGED cacheVars

\* shouldConfirmExecute of a tool invocation: no prompt in the modes
\* AUTO_EDIT, YOLO and PLAN, a prompt otherwise
ShouldConfirmExecute(tool) ==
  /\ confirm' = [tool |-> tool,
                 asked |-> mode \notin {"auto-edit", "yolo", "plan"},
                 outcome |-> "none"]
  /\ UNCHANGED <<usage, wf, keyCalls, mode, trusted, cmd, apiKey, ws, img>>
  /\ UNCHANGED cacheVars

\* onConfirm that treats ProceedAlways like ProceedOnce
OnConfirmOnce(tool, outcome) ==
  /\ confirm.tool = tool
  /\ confirm.asked
  /\ confirm.outcome = "none"
  /\ confirm' = [confirm EXCEPT !.outcome = outcome]
  /\ UNCHANGED <<usage, wf, keyCalls, mode, trusted, cmd, apiKey, ws, img>>
  /\ UNCHANGED cacheVars

\* onConfirm of the prompt: ProceedAlways switches to AUTO_EDIT
OnConfirm(tool, outcome) ==
  /\ confirm.tool = tool
  /\ confirm.asked
  /\ confirm.outcome = "none"
  /\ confirm' = [confirm EXCEPT !.outcome = outcome]
  /\ mode' = IF outcome = "ProceedAlways" /\ ~SetApprovalModeThrows("auto-edit")
               THEN "auto-edit"
               ELSE mode
  /\ UNCHANGED <<usage, wf, keyCalls, trusted, cmd, apiKey, ws, img>>
  /\ UNCHANGED cacheVars

NextCommands ==
  \/ \E hasConfig \in BOOLEAN : PlanCommand(hasConfig)
  \/ \E hasConfig \in BOOLEAN : YoloCommand(hasConfig)
  \/ \E tool \in ConfirmingTools : ShouldConfirmExecute(tool)
  \/ \E tool \in ConfirmingTools, outcome \in Outcomes : OnConfirm(tool, outcome)

SpecCommands == InitCommands /\ [][NextCommands]_vars

\* ------------------------------------------------------- image-url tool
MAX_IMAGE_SIZE_BYTES == 20 * 1024 * 1024

\* byte counts around the limit
ImageSizes ==
  {0, MAX_IMAGE_SIZE_BYTES - 1, MAX_IMAGE_SIZE_BYTES, MAX_IMAGE_SIZE_BYTES + 1}

\* a JavaScript number: NaN, or the integer n
NaN == [nan |-> TRUE, n |-> 0]
Number(n) == [nan |-> FALSE, n |-> n]

\* response.headers.get('content-length'): null, or the header's text, which
\* is empty, not a number, or the decimal digits of n
NoHeader == [kind |-> "null", n |-> 0]
ContentLengths ==
  {NoHeader, [kind |-> "empty", n |-> 0], [kind |-> "text", n |-> 0]}
    \cup {[kind |-> "digits", n |-> n] : n \in ImageSizes}

\* JavaScript truthiness of string | null
HeaderTruthy(h) == h.kind \notin {"null", "empty"}

\* parseInt(contentLength, 10)
ParseInt(h) == IF h.kind = "digits" THEN Number(h.n) ELSE NaN

\* x > MAX_IMAGE_SIZE_BYTES for a number x: every comparison with NaN is false
OverLimit(x) == ~x.nan /\ x.n > MAX_IMAGE_SIZE_BYTES

\* what the server answers: fetchThrows (a network error), the
\* status, whether the content type or else the URL names an image type, the
\* content-length header, the size of the body and whether reading it fails
Responses ==
  [fetchThrows : BOOLEAN, ok : BOOLEAN, typeSupported : BOOLEAN,
   urlMimeType : BOOLEAN, contentLength : ContentLengths,
   byteLength : ImageSizes, bodyThrows : BOOLEAN]

ImageError == [kind |-> "error", imagePart |-> Undefined]
ImageFetched(byteLength) == [kind |-> "image", imagePart |-> [bytes |-> byteLength]]
ImagePending == [kind |-> "none", imagePart |-> Undefined]

InitImage ==
  /\ CacheIdle
  /\ KeyIdle /\ CommandsIdle /\ WebIdle /\ FetchIdle /\ UsageIdle
  /\ img = <<>>

\* the fetch rejected: there is no response
NoResponse ==
  [fetchThrows |-> TRUE, ok |-> FALSE, typeSupported |-> FALSE,
   urlMimeType |-> FALSE, contentLength |-> NoHeader, byteLength |-> 0,
   bodyThrows |-> FALSE]

\* execute up to the await of fetch in fetchImageWithTimeout: the timer is
\* set and a listener is added to the caller's signal, which may be aborted
\* already; signal is signal.aborted, controller is controller.signal.aborted
ImageExecute(abortedBefore) ==
  /\ IF img = <<>> THEN TRUE ELSE img.pc = "done"
  /\ img' = [pc |-> "fetching", response |-> NoResponse, result |-> ImagePending,
             signal |-> abortedBefore, controller |-> FALSE, timer |-> "set"]
  /\ UNCHANGED <<usage, wf, keyCalls, mode, trusted, cmd, confirm, apiKey, ws>>
  /\ UNCHANGED cacheVars

\* the caller aborts its signal: the 'abort' event runs the listener
ImageAbort ==
  /\ IF img = <<>> THEN FALSE ELSE img.pc /= "done" /\ ~img.signal
  /\ img' = [img EXCEPT !.signal = TRUE, !.controller = TRUE]
  /\ UNCHANGED <<usage, wf, keyCalls, mode, trusted, cmd, confirm, apiKey, ws>>
  /\ UNCHANGED cacheVars

\* the timer of fetchImageWithTimeout fires
ImageTimeout ==
  /\ IF img = <<>> THEN FALSE ELSE img.pc = "fetching" /\ img.timer = "set"
  /\ img' = [img EXCEPT !.controller = TRUE, !.timer = "fired"]
  /\ UNCHANGED <<usage, wf, keyCalls, mode, trusted, cmd, confirm, apiKey, ws>>
  /\ UNCHANGED cacheVars

\* the aborted fetch rejects: finally clears the timer, execute catches
ImageFetchAborted ==
  /\ IF img = <<>> THEN FALSE ELSE img.pc = "fetching" /\ img.controller
  /\ img' = [img EXCEPT !.pc = "done", !.result = ImageError, !.timer = "cleared"]
  /\ UNCHANGED <<usage, wf, keyCalls, mode, trusted, cmd, confirm, apiKey, ws>>
  /\ UNCHANGED cacheVars

\* the fetch settles (fetchThrows: a network error): finally clears the
\* timer and execute goes through the header checks
ImageResponse(response) ==
  /\ IF img = <<>> THEN FALSE ELSE img.pc = "fetching" /\ ~img.controller
  /\ img' =
       IF \/ response.fetchThrows
          \/ ~response.ok
          \/ (~response.typeSupported /\ ~response.urlMimeType)
          \/ (/\ HeaderTruthy(response.contentLength)
              /\ OverLimit(ParseInt(response.contentLength)))
         THEN [img EXCEPT !.pc = "done", !.response = response,
                          !.result = ImageError, !.timer = "cleared"]
         ELSE [img EXCEPT !.pc = "downloading", !.response = response,
                          !.timer = "cleared"]
  /\ UNCHANGED <<usage, wf, keyCalls, mode, trusted, cmd, confirm, apiKey, ws>>
  /\ UNCHANGED cacheVars

\* the rest of execute without the second size check
ImageDownloadUnchecked ==
  /\ IF img = <<>> THEN FALSE ELSE img.pc = "downloading"
  /\ img' = [img EXCEPT !.pc = "done",
                        !.result = IF img.controller \/ img.response.bodyThrows
                                     THEN ImageError
                                     ELSE ImageFetched(img.response.byteLength)]
  /\ UNCHANGED <<usage, wf, keyCalls, mode, trusted, cmd, confirm, apiKey, ws>>
  /\ UNCHANGED cacheVars

\* response.arrayBuffer() settles, with a rejection when the controller was
\* aborted meanwhile: the rest of execute
ImageDownload ==
  /\ IF img = <<>> THEN FALSE ELSE img.pc = "downloading"
  /\ img' = [img EXCEPT !.pc = "done",
                        !.result = IF img.controller \/ img.response.bodyThrows
                                     THEN ImageError
                                   ELSE IF img.response.byteLength > MAX_IMAGE_SIZE_BYTES
                                     THEN ImageError
                                   ELSE ImageFetched(img.response.byteLength)]
  /\ UNCHANGED <<usage, wf, keyCalls, mode, trusted, cmd, confirm, apiKey, ws>>
  /\ UNCHANGED cacheVars

NextImage ==
  \/ \E abortedBefore \in BOOLEAN : ImageExecute(abortedBefore)
  \/ ImageAbort
  \/ ImageTimeout
  \/ ImageFetchAborted
  \/ \E response \in Responses : ImageResponse(response)
  \/ ImageDownload

SpecImage == InitImage /\ [][NextImage]_vars

\* ------------------------------------------------------- web-fetch tool
MaxFetchTicks == 2
WebContentMaxSize == 30
WebContentTtlMs == 15 * 60 * 1000

\* params.url, as a sequence of pieces: a GitHub blob URL, the raw URL it is
\* converted to, and another page
FetchUrls ==
  {<<"github.com", "/blob/", "a">>, <<"raw.githubusercontent.com", "/", "a">>, <<"b">>}

\* the text a page converts to: convert(html).substring(0, MAX_CONTENT_LENGTH)
PageTexts == {"", "t1", "t2"}

\* url.includes(piece)
Includes(url, piece) == \E n \in 1..Len(url) : url[n] = piece

\* url.replace(piece, by): the first occurrence is replaced
ReplaceFirst(url, piece, by) ==
  IF Includes(url, piece)
    THEN LET first == CHOOSE n \in 1..Len(url) :
                        url[n] = piece /\ \A k \in 1..(n - 1) : url[k] /= piece
         IN [url EXCEPT ![first] = by]
    ELSE url

\* the conversion of a GitHub blob URL to a raw URL
BlobToRaw(url) ==
  IF Includes(url, "github.com") /\ Includes(url, "/blob/")
    THEN ReplaceFirst(ReplaceFirst(url, "github.com", "raw.githubusercontent.com"),
                      "/blob/", "/")
    ELSE url

\* webContentCache, with the clock running
InitFetch ==
  /\ cache = <<>>
  /\ maxSize = WebContentMaxSize
  /\ defaultTtlMs = WebContentTtlMs
  /\ now = 0
  /\ last = Call("none", <<>>, Undefined, <<>>, Undefined)
  /\ recency = <<>>
  /\ promised = [k \in Keys |-> NoSet]
  /\ inserted = <<>>
  /\ KeyIdle /\ CommandsIdle /\ WebIdle /\ ImageIdle /\ FetchIdle /\ UsageIdle

\* executeDirectFetch up to its first await: the cache lookup
WfExecute(i, paramsUrl) ==
  /\ wf[i].pc = "idle"
  /\ LET url == BlobToRaw(paramsUrl)
         cacheKey == GenerateKey(url, <<>>)
         textContent == GetResult(cache, cacheKey, now)
     IN /\ cache' = GetCache(cache, cacheKey, now)
        /\ last' = Call("get", cacheKey, Undefined, <<>>, textContent)
        /\ recency' = IF textContent /= Undefined
                        THEN Touch(recency, cacheKey, MapKeys(cache'))
                        ELSE SelectKeys(recency, MapKeys(cache'))
        /\ inserted' = <<Undefined>>
        /\ wf' = [wf EXCEPT ![i] =
                    IF Truthy(textContent)
                      THEN [@ EXCEPT !.pc = "generating", !.url = url, !.key = cacheKey,
                                     !.textContent = textContent, !.cached = TRUE]
                      ELSE [@ EXCEPT !.pc = "fetching", !.url = url, !.key = cacheKey,
                                     !.textContent = textContent, !.fetches = 1]]
  /\ UNCHANGED <<maxSize, defaultTtlMs, now, promised>>
  /\ UNCHANGED <<usage, keyCalls, mode, trusted, cmd, confirm, apiKey, ws, img>>

\* the fetch resolves with an OK response: the page is converted and cached
WfResponse(i, text) ==
  /\ wf[i].pc = "fetching"
  /\ cache' = SetCache(cache, maxSize, defaultTtlMs, wf[i].key, text, <<>>, now)
  /\ last' = Call("set", wf[i].key, text, <<>>, Undefined)
  /\ recency' = Touch(recency, wf[i].key, MapKeys(cache'))
  /\ inserted' = <<Undefined>>
  /\ wf' = [wf EXCEPT ![i] = [@ EXCEPT !.pc = "generating", !.textContent = text]]
  /\ UNCHANGED <<maxSize, defaultTtlMs, now, promised>>
  /\ UNCHANGED <<usage, keyCalls, mode, trusted, cmd, confirm, apiKey, ws, img>>

\* the fetch rejects, the response is not OK or reading the body fails
WfFetchFails(i) ==
  /\ wf[i].pc = "fetching"
  /\ wf' = [wf EXCEPT ![i] = [@ EXCEPT !.pc = "done", !.result = "error"]]
  /\ UNCHANGED cacheVars
  /\ UNCHANGED <<usage, keyCalls, mode, trusted, cmd, confirm, apiKey, ws, img>>

\* geminiClient.generateContent settles: the result, or the catch block
WfGenerated(i, ok) ==
  /\ wf[i].pc = "generating"
  /\ wf' = [wf EXCEPT ![i] = [@ EXCEPT !.pc = "done",
                                       !.result = IF ok THEN "ok" ELSE "error"]]
  /\ UNCHANGED cacheVars
  /\ UNCHANGED <<usage, keyCalls, mode, trusted, cmd, confirm, apiKey, ws, img>>

FetchTick ==
  /\ now < MaxFetchTicks * WebContentTtlMs
  /\ now' = now + WebContentTtlMs
  /\ UNCHANGED <<cache, maxSize, defaultTtlMs, last, recency, promised, inserted>>
  /\ UNCHANGED toolVars

NextFetch ==
  \/ \E i \in Invs, paramsUrl \in FetchUrls : WfExecute(i, paramsUrl)
  \/ \E i \in Invs, text \in PageTexts : WfResponse(i, text)
  \/ \E i \in Invs : WfFetchFails(i)
  \/ \E i \in Invs, ok \in BOOLEAN : WfGenerated(i, ok)
  \/ FetchTick

SpecFetch == InitFetch /\ [][NextFetch]_vars

\* ------------------------------------------------- ContextUsageDisplay
MaxTokenCount == 40
BarWidth == 8

\* tokenLimit(model) for the models of a session
TokenLimits == {16, 20}

\* Math.round of the non-negative number num / den
MathRound(num, den) == (2 * num + den) \div (2 * den)

\* String.prototype.repeat: a negative count throws a RangeError
RepeatThrows(count) == count < 0
Repeat(char, count) == [n \in 1..count |-> char]

\* generateProgressBar(usagePercent, width), usagePercent = count / limit * 100
GenerateProgressBar(count, limit, width) ==
  LET filled == MathRound(count * width, limit)
      empty == width - filled
  IN IF RepeatThrows(filled) \/ RepeatThrows(empty)
       THEN [threw |-> TRUE, bar |-> <<>>]
       ELSE [threw |-> FALSE, bar |-> Repeat("filled", filled) \o Repeat("empty", empty)]

\* getUsageColor(usagePercent)
GetUsageColor(count, limit) ==
  IF count * 100 >= 90 * limit THEN "error"
  ELSE IF count * 100 >= 75 * limit THEN "warning"
  ELSE IF count * 100 >= 50 * limit THEN "secondary"
  ELSE "success"

InitUsage ==
  /\ CacheIdle
  /\ ToolsIdle

\* one render of the component
Render(promptTokenCount, maxTokens, compact, showProgressBar) ==
  /\ usage' = [promptTokenCount |-> promptTokenCount, maxTokens |-> maxTokens,
               compact |-> compact, showProgressBar |-> showProgressBar,
               color |-> GetUsageColor(promptTokenCount, maxTokens),
               output |-> IF ~compact /\ showProgressBar
                            THEN GenerateProgressBar(promptTokenCount, maxTokens, BarWidth)
                            ELSE [threw |-> FALSE, bar |-> <<>>]]
  /\ UNCHANGED <<wf, keyCalls, mode, trusted, cmd, confirm, apiKey, ws, img>>
  /\ UNCHANGED cacheVars

NextUsage ==
  \E promptTokenCount \in 0..MaxTokenCount, maxTokens \in TokenLimits,
     compact \in BOOLEAN, showProgressBar \in BOOLEAN :
    Render(promptTokenCount, maxTokens, compact, showProgressBar)

SpecUsage == InitUsage /\ [][NextUsage]_vars

\* ---------------------------------------------------------------- claims
\* the step just taken is a call of op (Tick is the only step that moves now)
CallStep(op) == now' = now /\ last'.op = op

\* C1: the physical entry count never exceeds maxSize, whatever keys (the
\* empty string included) are set, read, deleted or cleared.
CapacityBound == Len(cache) <= maxSize

\* C2: a set on a key already present leaves that key in the last
\* (most-recently-used) position of the eviction order, with timestamp and
\* expiresAt computed from the time of this call.
OverwriteMovesToEnd ==
  [][(CallStep("set") /\ MapHas(cache, last'.key)) =>
       LET e == cache'[Len(cache')] IN
         /\ e.key = last'.key
         /\ e.timestamp = now
         /\ e.expiresAt \in {now + defaultTtlMs}
                            \cup {now + last'.ttl[i] : i \in DOMAIN last'.ttl}]_vars

\* C3: a set on a key already present removes no key: the key set is the
\* same before and after, also at capacity.
OverwriteEvictsNothing ==
  [][(CallStep("set") /\ MapHas(cache, last'.key)) =>
       MapKeys(cache') = MapKeys(cache)]_vars

\* C4: once maxSize+1 distinct keys have been set on a new cache with no
\* other call in between, the first of them is absent and the others are
\* all present.
InsertionOrderEviction ==
  (Undefined \notin SeqRange(inserted) /\ Len(inserted) = maxSize + 1) =>
    /\ GetResult(cache, inserted[1], now) = Undefined
    /\ \A i \in 2..Len(inserted) : MapHas(cache, inserted[i])

\* C5: whenever a set removes a key, or sets a new key at capacity, exactly
\* the key whose last successful get or set is the oldest is removed.
LruVictim ==
  [][(/\ CallStep("set")
      /\ \/ MapKeys(cache) \ MapKeys(cache') /= {}
         \/ ~MapHas(cache, last'.key) /\ Len(cache) >= maxSize) =>
       MapKeys(cache) \ MapKeys(cache') = {recency[1]}]_vars

\* C6: a get on an entry whose expiresAt is before now returns undefined and
\* removes exactly that entry; a get at now = expiresAt returns the value.
ExpiredNeverServed ==
  [][(CallStep("get") /\ MapHas(cache, last'.key)) =>
       LET e == MapGet(cache, last'.key) IN
         /\ now > e.expiresAt =>
              /\ last'.ret = Undefined
              /\ ~MapHas(cache', last'.key)
              /\ Len(cache') = Len(cache) - 1
         /\ now = e.expiresAt => last'.ret = e.value]_vars

\* C6 witness: a get has just missed on a key whose TTL ran out, in a cache
\* that was below capacity, and the entry is gone.
ExpiredGetWitness ==
  /\ last.op = "get"
  /\ last.ret = Undefined
  /\ promised[last.key] /= NoSet
  /\ now > promised[last.key].until
  /\ ~MapHas(cache, last.key)
  /\ Len(cache) + 1 < maxSize

\* C7: the entry a set stores expires at the call time plus ttl when ttl is
\* provided and positive, and plus the default TTL otherwise.
EffectiveTtlApplied ==
  (last.op = "set" /\ MapHas(cache, last.key)) =>
    LET e == MapGet(cache, last.key) IN
      e.expiresAt = e.timestamp + EffectiveTtl(last.ttl, defaultTtlMs)

\* C8: no stored entry expires before it was created.
ExpiryNotBeforeCreation ==
  \A i \in 1..Len(cache) : cache[i].expiresAt >= cache[i].timestamp

\* C9: a set of a new key at capacity removes exactly the first entry of the
\* eviction order, expired or not, and no other.
EvictsExactlyFirst ==
  [][(CallStep("set") /\ ~MapHas(cache, last'.key) /\ Len(cache) >= maxSize) =>
       MapKeys(cache) \ MapKeys(cache') = {cache[1].key}]_vars

\* C10: a get on a key that was set, made before its effective TTL has
\* elapsed and before an eviction, delete or clear removed it, returns the
\* value that was set.
PromiseKept ==
  [][(/\ CallStep("get")
      /\ promised[last'.key] /= NoSet
      /\ now < promised[last'.key].until) =>
       last'.ret = promised[last'.key].value]_vars

\* C11: a get that hits an unexpired entry leaves that entry's value,
\* timestamp and expiresAt as they were, and leaves every other entry and
\* their relative order as they were; only the position of the key changes.
HitChangesOnlyRecency ==
  [][(/\ CallStep("get")
      /\ MapHas(cache, last'.key)
      /\ now <= MapGet(cache, last'.key).expiresAt) =>
       /\ MapGet(cache', last'.key) = MapGet(cache, last'.key)
       /\ MapDelete(cache', last'.key) = MapDelete(cache, last'.key)
       /\ Len(cache') = Len(cache)]_vars

\* C11 witness: a get has hit an entry created at an earlier time, with
\* another entry in the cache.
HitWitness ==
  /\ last.op = "get"
  /\ last.ret /= Undefined
  /\ MapHas(cache, last.key)
  /\ MapGet(cache, last.key).timestamp < now
  /\ Len(cache) >= 2

\* C12: has returns true exactly when a get in the same state would return
\* a value (the key is present and not expired) and leaves the cache as that
\* get would: an expired key is removed, a missing key changes nothing.
HasAgreesWithGet ==
  [][CallStep("has") =>
       LET k == last'.key
           present == MapHas(cache, k)
           live == present /\ now <= MapGet(cache, k).expiresAt
       IN /\ last'.ret = live
          /\ last'.ret = (GetResult(cache, k, now) /= Undefined)
          /\ cache' = GetCache(cache, k, now)
          /\ (present /\ ~live) => ~MapHas(cache', k)
          /\ ~present => cache' = cache]_vars

\* C12 witness: has has just answered false for a key whose TTL ran out, and
\* the entry is gone.
HasExpiredWitness ==
  /\ last.op = "has"
  /\ last.ret = FALSE
  /\ promised[last.key] /= NoSet
  /\ now > promised[last.key].until
  /\ ~MapHas(cache, last.key)

\* C13: a get on a key that is not in the cache returns undefined and leaves
\* the cache (size, keys, order) exactly as it was.
MissChangesNothing ==
  [][(CallStep("get") /\ ~MapHas(cache, last'.key)) =>
       /\ last'.ret = Undefined
       /\ cache' = cache]_vars

\* C13 witness: a get has missed on a key that no live set put there, in a
\* cache that holds other entries.
MissWitness ==
  /\ last.op = "get"
  /\ last.ret = Undefined
  /\ promised[last.key] = NoSet
  /\ ~MapHas(cache, last.key)
  /\ Len(cache) >= 1

\* C14: delete returns true exactly when the key was physically present,
\* expired or not; afterwards the key is absent and the other entries are
\* the same entries in the same relative order.
DeleteRemovesOnlyKey ==
  [][CallStep("delete") =>
       LET k == last'.key
           pos == IF MapHas(cache, k)
                    THEN CHOOSE i \in 1..Len(cache) : cache[i].key = k
                    ELSE Len(cache) + 1
       IN /\ last'.ret = MapHas(cache, k)
          /\ ~MapHas(cache', k)
          /\ Len(cache') = Len(cache) - (IF MapHas(cache, k) THEN 1 ELSE 0)
          /\ \A i \in 1..Len(cache') :
               cache'[i] = cache[IF i < pos THEN i ELSE i + 1]]_vars

\* C14 witness: a delete has returned true and other entries remain.
DeleteWitness ==
  /\ last.op = "delete"
  /\ last.ret = TRUE
  /\ ~MapHas(cache, last.key)
  /\ Len(cache) >= 1

\* C15: getStats returns the physical entry count (expired entries
\* included) and the maxSize given at construction, which never changes.
StatsArePhysical ==
  [][/\ maxSize' = maxSize
     /\ CallStep("getStats") =>
          /\ last'.ret.size = Len(cache)
          /\ last'.ret.maxSize = maxSize]_vars

\* C15 witness: getStats has reported a size above the number of keys a has
\* would answer true for.
StatsCountExpiredWitness ==
  /\ last.op = "getStats"
  /\ last.ret.size = Len(cache)
  /\ last.ret.size > Cardinality({k \in Keys : GetResult(cache, k, now) /= Undefined})

\* C16: a cache whose capacity is <= 0 or whose default TTL is negative does
\* not come out of construction: no such cache ever accepts a set or holds an
\* entry.
InvalidConfigRejected ==
  (maxSize <= 0 \/ defaultTtlMs < 0) => (last.op /= "set" /\ cache = <<>>)

\* two characters that differ at most in letter case
SameLetter(c1, c2) == c1 = c2 \/ {c1, c2} \in {{"a", "A"}, {"b", "B"}}

\* the string without its leading and trailing white space
FirstInk(str) ==
  IF \E i \in 1..Len(str) : str[i] /= " "
    THEN CHOOSE i \in 1..Len(str) :
           str[i] /= " " /\ \A j \in 1..(i - 1) : str[j] = " "
    ELSE Len(str) + 1
LastInk(str) ==
  IF \E i \in 1..Len(str) : str[i] /= " "
    THEN CHOOSE i \in 1..Len(str) :
           str[i] /= " " /\ \A j \in (i + 1)..Len(str) : str[j] = " "
    ELSE Len(str)
Core(str) == SubSeq(str, FirstInk(str), LastInk(str))

\* the two strings differ only in letter case and surrounding white space
SameUpToCaseAndMargin(s1, s2) ==
  /\ Len(Core(s1)) = Len(Core(s2))
  /\ \A i \in 1..Len(Core(s1)) : SameLetter(Core(s1)[i], Core(s2)[i])

\* str is query in lower case without its surrounding white space
IsNormalized(str, query) ==
  /\ SameUpToCaseAndMargin(str, query)
  /\ \A j \in 1..Len(str) : str[j] \notin {"A", "B"}
  /\ str /= <<>> => (str[1] /= " " /\ str[Len(str)] /= " ")

\* the content of an options argument: its set of properties
Content(options) ==
  IF options = <<>> THEN {Prop("", "omitted")}
  ELSE {options[1][i] : i \in 1..Len(options[1])}

\* every value of the options is a JSON value (a number or null here)
JsonValued(options) ==
  options = <<>> \/ \A i \in 1..Len(options[1]) :
                      options[1][i].value \notin {"NaN", "undefined"}

\* C17 (as claimed): of the last two generateKey calls, queries that differ
\* only in case and surrounding white space with identical options give the
\* same key, the same query with options of different content gives
\* different keys, and a call without options gives the normalized query
\* followed by ':'.
KeyNormalization ==
  /\ \A i \in 1..Len(keyCalls) :
       keyCalls[i].options = <<>> =>
         /\ keyCalls[i].key[Len(keyCalls[i].key)] = ":"
         /\ IsNormalized(
              SubSeq(keyCalls[i].key, 1, Len(keyCalls[i].key) - 1), keyCalls[i].query)
  /\ Len(keyCalls) = 2 =>
       /\ (/\ SameUpToCaseAndMargin(keyCalls[1].query, keyCalls[2].query)
           /\ keyCalls[1].options = keyCalls[2].options)
            => keyCalls[1].key = keyCalls[2].key
       /\ (/\ keyCalls[1].query = keyCalls[2].query
           /\ Content(keyCalls[1].options) /= Content(keyCalls[2].options))
            => keyCalls[1].key /= keyCalls[2].key

\* C17 (amended): the same, with "different keys" claimed only for options
\* whose values are all JSON values.
KeyNormalizationJson ==
  /\ \A i \in 1..Len(keyCalls) :
       keyCalls[i].options = <<>> =>
         /\ keyCalls[i].key[Len(keyCalls[i].key)] = ":"
         /\ IsNormalized(
              SubSeq(keyCalls[i].key, 1, Len(keyCalls[i].key) - 1), keyCalls[i].query)
  /\ Len(keyCalls) = 2 =>
       /\ (/\ SameUpToCaseAndMargin(keyCalls[1].query, keyCalls[2].query)
           /\ keyCalls[1].options = keyCalls[2].options)
            => keyCalls[1].key = keyCalls[2].key
       /\ (/\ keyCalls[1].query = keyCalls[2].query
           /\ Content(keyCalls[1].options) /= Content(keyCalls[2].options)
           /\ JsonValued(keyCalls[1].options)
           /\ JsonValued(keyCalls[2].options))
            => keyCalls[1].key /= keyCalls[2].key

\* C17 witness: two calls whose queries differ in case and in surrounding
\* white space, with the same non-empty options, got the same key.
KeyNormalizationWitness ==
  /\ Len(keyCalls) = 2
  /\ keyCalls[1].query = <<" ", "A", " ">>
  /\ keyCalls[2].query = <<"a">>
  /\ keyCalls[1].options = <<<<Prop("a", "1")>>>>
  /\ keyCalls[2].options = keyCalls[1].options
  /\ keyCalls[1].key = keyCalls[2].key

\* key is query in lower case without its margins, followed by ':'
IsQueryKey(key, query) ==
  /\ key /= <<>>
  /\ key[Len(key)] = ":"
  /\ IsNormalized(SubSeq(key, 1, Len(key) - 1), query)

\* the entries of the Map that a get of query's key serves at time t
LiveEntries(m, query, t) ==
  {e \in {m[n] : n \in 1..Len(m)} : IsQueryKey(e.key, query) /\ t <= e.expiresAt}

\* execute of invocation i starts in this step, with an API key configured
ExecuteStep(i) == ws[i].pc = "idle" /\ ws'[i].pc /= "idle" /\ apiKey

\* the step reads the cache first and serves a hit from it without a request
ReadsCacheFirst(i) ==
  /\ ws[i].fetches = 0
  /\ last'.op = "get"
  /\ IsQueryKey(last'.key, ws'[i].query)
  /\ \A e \in LiveEntries(cache, ws'[i].query, now) :
       /\ ws'[i].pc = "done"
       /\ ws'[i].result = [kind |-> "ok", cached |-> TRUE, payload |-> e.value]
       /\ ws'[i].fetches = 0

\* the step issues the first request
IssuesRequest(i) == ws'[i].pc = "fetching" /\ ws'[i].fetches = 1

\* a result marked cached=false comes from a successful request whose result
\* was stored under the key that was read
StoresBeforeReturning(i) ==
  (/\ ws[i].pc /= "done"
   /\ ws'[i].result.kind = "ok"
   /\ ws'[i].result.cached = FALSE)
    => /\ ws[i].pc = "fetching"
       /\ IsQueryKey(ws[i].key, ws[i].query)
       /\ last' = [op |-> "set", key |-> ws[i].key, value |-> ws'[i].result.payload,
                   ttl |-> <<>>, ret |-> Undefined]
       /\ \E e \in LiveEntries(cache', ws[i].query, now) :
            e.value = ws'[i].result.payload

\* C18 (as claimed): with an API key, execute reads the cache under the
\* normalized query key before any request; a hit is returned marked
\* cached=true without a request; a miss issues the request, and a
\* successful request is stored under the same key before a result marked
\* cached=false is returned.
ReadThrough ==
  [][\A i \in Invs :
       /\ ExecuteStep(i) =>
            /\ ReadsCacheFirst(i)
            /\ LiveEntries(cache, ws'[i].query, now) = {} => IssuesRequest(i)
       /\ StoresBeforeReturning(i)]_vars

\* C18 (amended): the same, except that a miss of an invocation whose signal
\* is already aborted issues no request and returns an error.
ReadThroughUnlessAborted ==
  [][\A i \in Invs :
       /\ ExecuteStep(i) =>
            /\ ReadsCacheFirst(i)
            /\ LiveEntries(cache, ws'[i].query, now) = {} =>
                 IF ws[i].aborted
                   THEN /\ ws'[i].pc = "done"
                        /\ ws'[i].result.kind = "error"
                        /\ ws'[i].fetches = 0
                   ELSE IssuesRequest(i)
       /\ StoresBeforeReturning(i)]_vars

\* C18 witness: one invocation missed, fetched and returned "r1" marked
\* cached=false; the other, with a query that differs in case and margin,
\* returned the same payload marked cached=true without a request.
ReadThroughWitness ==
  \E i, j \in Invs :
    /\ ws[i].result = [kind |-> "ok", cached |-> FALSE, payload |-> "r1"]
    /\ ws[j].result = [kind |-> "ok", cached |-> TRUE, payload |-> "r1"]
    /\ ws[i].fetches > 0
    /\ ws[j].fetches = 0
    /\ ws[i].query /= ws[j].query
    /\ ws[i].key = ws[j].key

\* the step just taken is the named slash command
CommandStep(name) == cmd' /= cmd /\ cmd'.name = name

\* C19 (as claimed): /plan sets the mode to DEFAULT when it is PLAN and to
\* PLAN otherwise, and /yolo does the same for YOLO, so the mode after a
\* command is the one the command set and turning a mode off lands in DEFAULT.
PlanYoloToggle ==
  [][/\ CommandStep("plan") => mode' = IF mode = "plan" THEN "default" ELSE "plan"
     /\ CommandStep("yolo") => mode' = IF mode = "yolo" THEN "default" ELSE "yolo"]_vars

\* C19 (amended): the toggle holds for every command that answers with its
\* info message; a command that answers with an error leaves the mode as it
\* was.
PlanYoloToggleOnSuccess ==
  [][/\ (CommandStep("plan") /\ cmd'.messageType = "info")
          => mode' = IF mode = "plan" THEN "default" ELSE "plan"
     /\ (CommandStep("yolo") /\ cmd'.messageType = "info")
          => mode' = IF mode = "yolo" THEN "default" ELSE "yolo"
     /\ ((CommandStep("plan") \/ CommandStep("yolo")) /\ cmd'.messageType = "error")
          => mode' = mode]_vars

\* C19 witness: after a prompt answered ProceedAlways had switched the mode
\* to AUTO_EDIT, Plan mode was turned on and /plan then turned it off, which
\* landed in DEFAULT.
PlanOffWitness ==
  /\ confirm.outcome = "ProceedAlways"
  /\ cmd = [name |-> "plan", before |-> "plan", messageType |-> "info",
            content |-> "disabled"]
  /\ mode = "default"

\* the content-length header declares a size above the limit
DeclaredOverLimit(h) == h.kind = "digits" /\ h.n > MAX_IMAGE_SIZE_BYTES

\* C20: a finished execute returns an image part only for a body of at most
\* MAX_IMAGE_SIZE_BYTES bytes; when the declared content-length or the body
\* is above the limit, the result is an error without imagePart, whatever
\* the header says about the body.
ImageSizeLimit ==
  (IF img = <<>> THEN FALSE ELSE img.pc = "done") =>
    /\ img.result.kind = "image" =>
         /\ img.result.imagePart.bytes = img.response.byteLength
         /\ img.result.imagePart.bytes <= MAX_IMAGE_SIZE_BYTES
    /\ (\/ DeclaredOverLimit(img.response.contentLength)
        \/ img.response.byteLength > MAX_IMAGE_SIZE_BYTES)
         => /\ img.result.kind = "error"
            /\ img.result.imagePart = Undefined

\* C20 witness: an image response whose content-length header is missing or
\* understates a body above the limit was downloaded and ended in an error.
ImageUnderstatedWitness ==
  /\ IF img = <<>> THEN FALSE ELSE img.pc = "done"
  /\ ~img.response.fetchThrows /\ img.response.ok /\ img.response.typeSupported
  /\ ~img.response.bodyThrows
  /\ img.response.contentLength = [kind |-> "digits", n |-> 0]
  /\ img.response.byteLength > MAX_IMAGE_SIZE_BYTES
  /\ img.result = ImageError

\* invocation i has read the cache, missed, and not yet returned
InFlight(i) == ws[i].pc \in {"fetching", "sleeping"}

\* the entries of the Map stored under key
EntriesOf(m, key) == {n \in 1..Len(m) : m[n].key = key}

FailureStep(i) == ws[i].pc /= "done" /\ ws'[i].result.kind = "error"

\* all entries of the Map that a get would serve at time t
AllLive(m, t) == {e \in {m[n] : n \in 1..Len(m)} : t <= e.expiresAt}

ShouldConfirmStep == confirm' /= confirm /\ confirm'.outcome = "none"

\* the prompt of a tool is answered in this step
OnConfirmStep == confirm.outcome = "none" /\ confirm'.outcome /= "none"

FailedCommandKeepsMode ==
  [][\A name \in {"plan", "yolo"} :
       CommandStep(name) =>
         /\ cmd'.messageType \in {"info", "error"}
         /\ cmd'.messageType = "error" =>
              /\ mode' = mode
              /\ cmd'.content \in {"Configuration not available.", "Failed to toggle"}
              /\ cmd'.content = "Configuration not available."
                   => cmd'.before = Undefined
              /\ cmd'.content = "Failed to toggle" => cmd'.before = mode
         /\ cmd'.messageType = "info" => mode' /= mode]_vars

\* C26 witness: in an untrusted folder in Plan mode, /yolo was refused with
\* the 'Failed to toggle' message and the mode is still PLAN.
YoloRefusedWitness ==
  /\ ~trusted
  /\ cmd = [name |-> "yolo", before |-> "plan", messageType |-> "error",
            content |-> "Failed to toggle"]
  /\ mode = "plan"

\* the entries a get of url's key serves at time t, the URL taken after the
\* blob-to-raw conversion
CachedPages(m, paramsUrl, t) == LiveEntries(m, BlobToRaw(paramsUrl), t)

\* C27: when executeDirectFetch starts for a URL whose converted text is in
\* the cache and not expired, whatever the text is and however the call that
\* stored it ended, it issues no request and uses the cached text.
FetchedOnce ==
  [][\A i \in Invs, paramsUrl \in FetchUrls :
       (/\ wf[i].pc = "idle"
        /\ wf'[i].pc /= "idle"
        /\ wf'[i].url = BlobToRaw(paramsUrl))
         => \A e \in CachedPages(cache, paramsUrl, now) :
              /\ wf'[i].fetches = 0
              /\ wf'[i].cached
              /\ wf'[i].textContent = e.value]_vars

\* C28: once the caller's signal is aborted, before the fetch or during it,
\* the controller of the fetch is aborted and execute ends with an error
\* result; and the timer is cleared whenever fetchImageWithTimeout has
\* returned or thrown.
AbortCombined ==
  (img /= <<>>) =>
    /\ img.signal =>
         /\ img.controller
         /\ img.pc = "done" => img.result = ImageError
    /\ img.pc \in {"downloading", "done"} => img.timer = "cleared"

\* the number of cells of the bar that show char
Cells(bar, char) == Cardinality({n \in 1..Len(bar) : bar[n] = char})

\* C29: every render with the progress bar, for a token count from zero to
\* beyond the limit, ends without an exception and shows a bar of BarWidth
\* cells: the first round(count / limit * BarWidth) filled, the rest empty.
ProgressBarWidth ==
  (IF usage = <<>> THEN FALSE ELSE ~usage.compact /\ usage.showProgressBar) =>
    /\ ~usage.output.threw
    /\ Len(usage.output.bar) = BarWidth
    /\ \A n \in 1..Len(usage.output.bar) :
         usage.output.bar[n] =
           IF 2 * n * usage.maxTokens
                <= 2 * usage.promptTokenCount * BarWidth + usage.maxTokens
             THEN "filled"
             ELSE "empty"

====
